---- MODULE Spec2Model ----
(***************************************************************************)
(* prompt-bench: test execution (TestRunner), the result store (JSON       *)
(* files under data/results/<project>/<runId>.json), manual validation     *)
(* (ResultsViewer) and judge validation (OpenAIValidator driven by         *)
(* BatchValidationDialog), as one state machine.                           *)
(*                                                                         *)
(* Python values that the code tells apart with `is True`, `is False` and  *)
(* == "skipped" are tagged tuples; text that the code normalises           *)
(* character by character is a sequence of one-character strings.          *)
(* The write-only "timestamp" fields of results and validations are not    *)
(* carried; the run's own timestamp is.                                    *)
(***************************************************************************)
EXTENDS Integers, Sequences, FiniteSets, TLC

VARIABLES clock, projects, prompts, files, runner, mem, view, dialog, lastOp, ops

vars == <<clock, projects, prompts, files, runner, mem, view, dialog, lastOp, ops>>

(***************************************************************************)
(* Bounds of the model.                                                    *)
(***************************************************************************)
MaxContexts == 2
MaxClock == 1
MaxOps == 4

(***************************************************************************)
(* Python values and texts.                                                *)
(***************************************************************************)
PyTrue == <<"bool", "True">>
PyFalse == <<"bool", "False">>
PyStr(s) == <<"str", s>>
Skipped == PyStr("skipped")

NoText == << >>
Space == " "
Punctuation == {".", ":", "{", "}", ",", "\""}

\* str.lower on one character
LowerChar(c) == CASE c = "Y" -> "y" [] c = "E" -> "e" [] c = "N" -> "n" [] OTHER -> c

\* ''.join(s.split())
StripWhitespace(s) == SelectSeq(s, LAMBDA c : c # Space)

\* s.translate(str.maketrans('', '', string.punctuation))
StripPunctuationText(s) == SelectSeq(s, LAMBDA c : c \notin Punctuation)

Lower(s) == [i \in DOMAIN s |-> LowerChar(s[i])]

\* the text both responses are reduced to before they are compared
Normalise(s, ws, punct) ==
    LET a == IF ws THEN StripWhitespace(s) ELSE s
        b == IF punct THEN StripPunctuationText(a) ELSE a
    IN  Lower(b)

ProjectName == "p"
JudgeModel == "judge-model"
PromptTexts == {"New Prompt", "edited"}

(***************************************************************************)
(* The local generation endpoint: what one POST can come back with.        *)
(***************************************************************************)
AnswerYes == <<"Y", ".">>
AnswerBlank == <<" ">>
NoResponseReceived == <<"N", "o", " ", "r", ".">>
ErrorPrefix == <<"E", "r", "r", "o", "r", ":", " ">>

ModelReplies ==
    { [transport |-> "ok", http |-> 200, hasResponse |-> TRUE, response |-> AnswerYes],
      [transport |-> "ok", http |-> 200, hasResponse |-> TRUE, response |-> AnswerBlank],
      [transport |-> "ok", http |-> 200, hasResponse |-> FALSE, response |-> NoText],
      [transport |-> "ok", http |-> 500, hasResponse |-> FALSE, response |-> NoText],
      [transport |-> "refused", http |-> 0, hasResponse |-> FALSE, response |-> NoText] }

ModelFailed(reply) == reply.transport # "ok" \/ reply.http >= 400

\* str(e) of the exception the request raised
ModelErrorText(reply) ==
    IF reply.transport # "ok" THEN <<"r", "e", "f", "u", "s", "e", "d">>
    ELSE <<"5", "0", "0">>

\* variant: the except branch loses the error text
query_ollama_async_loses_error(reply) ==
    IF ModelFailed(reply) \/ ~reply.hasResponse THEN NoResponseReceived
    ELSE reply.response

query_ollama_async(reply) ==
    IF ModelFailed(reply) THEN ErrorPrefix \o ModelErrorText(reply)
    ELSE IF reply.hasResponse THEN reply.response
    ELSE NoResponseReceived

(***************************************************************************)
(* Results and runs in memory.                                             *)
(***************************************************************************)
NoManual == [present |-> FALSE, status |-> PyFalse]
NoOpenai == [present |-> FALSE, status |-> PyFalse, reason |-> << >>,
             model |-> "", response |-> NoText]

\* the dict process_contexts_async appends: it has no "validations" key
NewResult(context, response) ==
    [context |-> context, modelResponse |-> response,
     hasValidations |-> FALSE, manual |-> NoManual, openai |-> NoOpenai]

HasManual(r) == r.hasValidations /\ r.manual.present
HasOpenai(r) == r.hasValidations /\ r.openai.present

RunIdOf(second) == <<"run_", second>>

NoRun == [runId |-> RunIdOf(0), projectName |-> "", promptId |-> <<"prompt_", 0>>,
          promptText |-> "", timestamp |-> 0, results |-> << >>]

(***************************************************************************)
(* json.dump / json.load of a test run.  A file holds JSON text: true,     *)
(* false and quoted strings; a key that is absent in memory is absent in   *)
(* the file.                                                               *)
(***************************************************************************)
Quote == "\""
JsonTrue == <<"true">>
JsonFalse == <<"false">>

dump_str(s) == <<Quote, s, Quote>>
load_str(t) == t[2]

\* variant: booleans are written as their str() text
dump_value_as_text(v) ==
    IF v = PyTrue THEN dump_str("True")
    ELSE IF v = PyFalse THEN dump_str("False")
    ELSE dump_str(v[2])

dump_value(v) ==
    IF v = PyTrue THEN JsonTrue
    ELSE IF v = PyFalse THEN JsonFalse
    ELSE dump_str(v[2])

load_value(t) ==
    IF t = JsonTrue THEN PyTrue
    ELSE IF t = JsonFalse THEN PyFalse
    ELSE PyStr(load_str(t))

JsonNoManual == [present |-> FALSE, status |-> JsonFalse]
JsonNoOpenai == [present |-> FALSE, status |-> JsonFalse, reason |-> dump_str(<< >>),
                 model |-> dump_str(""), response |-> dump_str(NoText)]

dump_result(r) ==
    [context |-> dump_str(r.context),
     modelResponse |-> dump_str(r.modelResponse),
     hasValidations |-> r.hasValidations,
     manual |-> IF HasManual(r)
                THEN [present |-> TRUE, status |-> dump_value(r.manual.status)]
                ELSE JsonNoManual,
     openai |-> IF HasOpenai(r)
                THEN [present |-> TRUE,
                      status |-> dump_value(r.openai.status),
                      reason |-> dump_str(r.openai.reason),
                      model |-> dump_str(r.openai.model),
                      response |-> dump_str(r.openai.response)]
                ELSE JsonNoOpenai]

load_result(j) ==
    [context |-> load_str(j.context),
     modelResponse |-> load_str(j.modelResponse),
     hasValidations |-> j.hasValidations,
     manual |-> IF j.hasValidations /\ j.manual.present
                THEN [present |-> TRUE, status |-> load_value(j.manual.status)]
                ELSE NoManual,
     openai |-> IF j.hasValidations /\ j.openai.present
                THEN [present |-> TRUE,
                      status |-> load_value(j.openai.status),
                      reason |-> load_str(j.openai.reason),
                      model |-> load_str(j.openai.model),
                      response |-> load_str(j.openai.response)]
                ELSE NoOpenai]

json_dump(t) ==
    [runId |-> dump_str(t.runId),
     projectName |-> dump_str(t.projectName),
     promptId |-> dump_str(t.promptId),
     promptText |-> dump_str(t.promptText),
     timestamp |-> dump_str(t.timestamp),
     results |-> [i \in DOMAIN t.results |-> dump_result(t.results[i])]]

json_load(j) ==
    [runId |-> load_str(j.runId),
     projectName |-> load_str(j.projectName),
     promptId |-> load_str(j.promptId),
     promptText |-> load_str(j.promptText),
     timestamp |-> load_str(j.timestamp),
     results |-> [i \in DOMAIN j.results |-> load_result(j.results[i])]]

(***************************************************************************)
(* The result store: files is the set of run files that exist, by path.    *)
(***************************************************************************)
FilePath(project, runId) == <<project, runId>>

FileExists(fs, project, runId) == FilePath(project, runId) \in DOMAIN fs

\* open(file_path, 'w'); json.dump(test_run, f)
WriteFile(fs, path, t) ==
    [q \in DOMAIN fs \cup {path} |-> IF q = path THEN json_dump(t) ELSE fs[q]]

\* file_path.unlink()
Unlink(fs, path) == [q \in DOMAIN fs \ {path} |-> fs[q]]

\* variant: nothing is written
save_results_skipped(fs, t) == fs

save_results(fs, t) == WriteFile(fs, FilePath(t.projectName, t.runId), t)

\* the value load_results returns when the file exists (None otherwise)
load_results(fs, project, runId) == json_load(fs[FilePath(project, runId)])

\* variant: the file_path.exists() check is left out
save_validation_never_raises(fs, project, runId) == FALSE

\* save_validation raises FileNotFoundError and writes nothing when the file is missing
save_validation_raises(fs, project, runId) == ~FileExists(fs, project, runId)

save_validation(fs, project, runId, t) ==
    IF save_validation_raises(fs, project, runId) THEN fs
    ELSE WriteFile(fs, FilePath(project, runId), t)

(***************************************************************************)
(* Statistics of list_test_runs for one stored run.                        *)
(***************************************************************************)
Count(results, P(_)) == Cardinality({i \in DOMAIN results : P(results[i])})

Percent(part, whole) == IF whole > 0 THEN (part * 100) \div whole ELSE 0

\* variant: the manual success rate is taken over all validated results
run_stats_skipped_in_rate(t) ==
    LET rs == t.results
        total == Len(rs)
        manual_validated == Count(rs, HasManual)
        manual_success == Count(rs, LAMBDA r : HasManual(r) /\ r.manual.status = PyTrue)
        manual_failed == Count(rs, LAMBDA r : HasManual(r) /\ r.manual.status = PyFalse)
        manual_skipped == Count(rs, LAMBDA r : HasManual(r) /\ r.manual.status = Skipped)
        openai_validated == Count(rs, HasOpenai)
        openai_success == Count(rs, LAMBDA r : HasOpenai(r) /\ r.openai.status = PyTrue)
        openai_failed == Count(rs, LAMBDA r : HasOpenai(r) /\ r.openai.status = PyFalse)
    IN  [total |-> total,
         manual |-> [validated |-> manual_validated,
                     success |-> manual_success,
                     failed |-> manual_failed,
                     skipped |-> manual_skipped,
                     progress |-> Percent(manual_validated, total),
                     successRate |-> Percent(manual_success, manual_validated)],
         openai |-> [validated |-> openai_validated,
                     success |-> openai_success,
                     failed |-> openai_failed,
                     progress |-> Percent(openai_validated, total),
                     successRate |-> Percent(openai_success, openai_validated)]]

\* the stats list_test_runs computes for one loaded run
run_stats(t) ==
    LET rs == t.results
        total == Len(rs)
        manual_validated == Count(rs, HasManual)
        manual_success == Count(rs, LAMBDA r : HasManual(r) /\ r.manual.status = PyTrue)
        manual_failed == Count(rs, LAMBDA r : HasManual(r) /\ r.manual.status = PyFalse)
        manual_skipped == Count(rs, LAMBDA r : HasManual(r) /\ r.manual.status = Skipped)
        openai_validated == Count(rs, HasOpenai)
        openai_success == Count(rs, LAMBDA r : HasOpenai(r) /\ r.openai.status = PyTrue)
        openai_failed == Count(rs, LAMBDA r : HasOpenai(r) /\ r.openai.status = PyFalse)
    IN  [total |-> total,
         manual |-> [validated |-> manual_validated,
                     success |-> manual_success,
                     failed |-> manual_failed,
                     skipped |-> manual_skipped,
                     progress |-> Percent(manual_validated, total),
                     successRate |-> Percent(manual_success,
                                             manual_validated - manual_skipped)],
         openai |-> [validated |-> openai_validated,
                     success |-> openai_success,
                     failed |-> openai_failed,
                     progress |-> Percent(openai_validated, total),
                     successRate |-> Percent(openai_success, openai_validated)]]

\* the entry list_test_runs appends for one run file
run_entry(j) ==
    [runId |-> json_load(j).runId,
     timestamp |-> json_load(j).timestamp,
     promptId |-> json_load(j).promptId,
     stats |-> run_stats(json_load(j))]

\* project_dir.glob("run_*.json"): the run files of the project, in some order
RECURSIVE glob(_, _)
glob(fs, project) ==
    LET paths == {p \in DOMAIN fs : p[1] = project} IN
    IF paths = {} THEN << >>
    ELSE LET first == CHOOSE p \in paths : TRUE
         IN  <<first>> \o glob(Unlink(fs, first), project)

\* variant: runs.sort(key=timestamp) without reverse=True
RECURSIVE sort_runs_ascending(_)
sort_runs_ascending(runs) ==
    IF runs = << >> THEN << >>
    ELSE LET rest == sort_runs_ascending(Tail(runs))
         IN  SelectSeq(rest, LAMBDA e : e.timestamp < Head(runs).timestamp)
               \o <<Head(runs)>>
               \o SelectSeq(rest, LAMBDA e : e.timestamp >= Head(runs).timestamp)

\* runs.sort(key=lambda x: x["timestamp"], reverse=True): a stable sort
RECURSIVE sort_runs(_)
sort_runs(runs) ==
    IF runs = << >> THEN << >>
    ELSE LET rest == sort_runs(Tail(runs))
         IN  SelectSeq(rest, LAMBDA e : e.timestamp > Head(runs).timestamp)
               \o <<Head(runs)>>
               \o SelectSeq(rest, LAMBDA e : e.timestamp <= Head(runs).timestamp)

\* one entry per run file of the project, newest first
list_test_runs(fs, project) ==
    sort_runs([k \in DOMAIN glob(fs, project) |-> run_entry(fs[glob(fs, project)[k]])])

(***************************************************************************)
(* The judge endpoint and OpenAIValidator.validate_response.               *)
(***************************************************************************)
ContentValidTrue == <<"{", "valid", ":", "true", ",", "reason", ":", "ok", "}">>
ContentValidFalse == <<"{", "valid", ":", "false", ",", "reason", ":", "ok", "}">>
ContentValidText == <<"{", "valid", ":", Quote, "yes", Quote, ",", "reason", ":", "ok", "}">>
ContentNoValid == <<"{", "reason", ":", "ok", "}">>
ContentNotJson == <<"s", "o", "r", "r", "y">>

JudgeContents ==
    {ContentValidTrue, ContentValidFalse, ContentValidText, ContentNoValid, ContentNotJson}

JudgeReplies ==
    { [transport |-> "ok", http |-> 200, content |-> c] : c \in JudgeContents }
    \cup { [transport |-> "ok", http |-> 500, content |-> NoText],
           [transport |-> "refused", http |-> 0, content |-> NoText] }

\* json.loads(content) followed by result["valid"] and result["reason"]
ParseJudgeContent(content) ==
    CASE content = ContentValidTrue ->
            [parses |-> TRUE, hasValid |-> TRUE, valid |-> PyTrue, reason |-> <<"ok">>]
      [] content = ContentValidFalse ->
            [parses |-> TRUE, hasValid |-> TRUE, valid |-> PyFalse, reason |-> <<"ok">>]
      [] content = ContentValidText ->
            [parses |-> TRUE, hasValid |-> TRUE, valid |-> PyStr("yes"), reason |-> <<"ok">>]
      [] content = ContentNoValid ->
            [parses |-> TRUE, hasValid |-> FALSE, valid |-> PyFalse, reason |-> <<"ok">>]
      [] OTHER ->
            [parses |-> FALSE, hasValid |-> FALSE, valid |-> PyFalse, reason |-> << >>]

\* the request raises inside the try block of validate_response
JudgeRaises(reply) ==
    \/ reply.transport # "ok"
    \/ reply.http >= 400
    \/ ~ParseJudgeContent(reply.content).parses
    \/ ~ParseJudgeContent(reply.content).hasValid

\* str(e) of that exception
JudgeErrorText(reply) ==
    IF reply.transport # "ok" THEN "refused"
    ELSE IF reply.http >= 400 THEN "500"
    ELSE IF ~ParseJudgeContent(reply.content).parses THEN "Expecting value"
    ELSE "'valid'"

ValidationFailedPrefix == "Validation failed: "

\* variant: the except branch reports the bare error text
validate_response_bare_reason(reply) ==
    IF JudgeRaises(reply)
    THEN [model |-> JudgeModel, status |-> PyFalse,
          reason |-> <<JudgeErrorText(reply)>>,
          hasResponse |-> FALSE, response |-> NoText]
    ELSE [model |-> JudgeModel, status |-> ParseJudgeContent(reply.content).valid,
          reason |-> ParseJudgeContent(reply.content).reason,
          hasResponse |-> TRUE, response |-> reply.content]

validate_response(reply) ==
    IF JudgeRaises(reply)
    THEN [model |-> JudgeModel, status |-> PyFalse,
          reason |-> <<ValidationFailedPrefix, JudgeErrorText(reply)>>,
          hasResponse |-> FALSE, response |-> NoText]
    ELSE [model |-> JudgeModel, status |-> ParseJudgeContent(reply.content).valid,
          reason |-> ParseJudgeContent(reply.content).reason,
          hasResponse |-> TRUE, response |-> reply.content]

\* variant: result["validations"] = {"openai": ...}
RecordOpenaiAlone(r, validation) ==
    [r EXCEPT !.hasValidations = TRUE,
              !.manual = NoManual,
              !.openai = [present |-> TRUE,
                          status |-> validation.status,
                          reason |-> validation.reason,
                          model |-> validation.model,
                          response |-> IF validation.hasResponse
                                       THEN validation.response ELSE NoText]]

\* the write of process_single_validation to result["validations"]["openai"]
RecordOpenai(r, validation) ==
    [r EXCEPT !.hasValidations = TRUE,
              !.openai = [present |-> TRUE,
                          status |-> validation.status,
                          reason |-> validation.reason,
                          model |-> validation.model,
                          response |-> IF validation.hasResponse
                                       THEN validation.response ELSE NoText]]

\* variant: result["validations"] = {"manual": ...}
RecordManualAlone(r, status) ==
    [r EXCEPT !.hasValidations = TRUE,
              !.manual = [present |-> TRUE, status |-> status],
              !.openai = NoOpenai]

\* the write of validate_result / skip_result to result["validations"]["manual"]
RecordManual(r, status) ==
    [r EXCEPT !.hasValidations = TRUE,
              !.manual = [present |-> TRUE, status |-> status]]


(***************************************************************************)
(* State.                                                                  *)
(*   clock    the wall clock, in seconds                                   *)
(*   projects the names of the projects in projects.json                   *)
(*   prompts  the prompts of the project (projects.json)                   *)
(*   files    the run files that exist, path -> JSON document              *)
(*   runner   TestRunner.run_test in progress, and what it last returned   *)
(*   mem      the test_run dict held by the open ResultsViewer or          *)
(*            BatchValidationDialog (one object, shared by both)           *)
(*   view     the ResultsViewer widget                                     *)
(*   dialog   the BatchValidationDialog and the validate_batch it runs     *)
(*   lastOp   the operation that produced the state, and how it ended      *)
(*   ops      the number of user operations so far                         *)
(***************************************************************************)
PromptId(n) == <<"prompt_", n>>

IdleRunner ==
    [pc |-> "idle", runId |-> RunIdOf(0), promptId |-> PromptId(0), promptText |-> "",
     contexts |-> << >>, tasks |-> << >>, order |-> << >>, results |-> << >>,
     returned |-> NoRun]

NoReply == [transport |-> "", http |-> 0, hasResponse |-> FALSE, response |-> NoText]
PendingTask == [done |-> FALSE, reply |-> NoReply, response |-> NoText]

NoView == [open |-> FALSE, current_row |-> -1,
           strip_whitespace |-> TRUE, strip_punctuation |-> TRUE]

NoStats == [total |-> 0, validated |-> 0, success |-> 0, failed |-> 0, success_rate |-> 0]
NoJudgeReply == [transport |-> "", http |-> 0, content |-> NoText]

NoDialog ==
    [pc |-> "none", fromViewer |-> FALSE, unvalidated |-> 0, count |-> 0,
     start_index |-> 0, to_validate |-> << >>, tasks |-> << >>, completed |-> 0,
     progress |-> << >>, before |-> NoRun, stats |-> NoStats]

NoPath == <<"", RunIdOf(0)>>

\* an operation, the error it reported, whether it wrote a run file, and the file
OpAt(name, error, saved, path) ==
    [name |-> name, error |-> error, saved |-> saved, path |-> path]

Op(name, error) == OpAt(name, error, FALSE, NoPath)

Init ==
    /\ clock = 0
    /\ projects = {ProjectName}
    /\ prompts = << [id |-> PromptId(1), text |-> "New Prompt"] >>
    /\ files = << >>
    /\ runner = IdleRunner
    /\ mem = NoRun
    /\ view = NoView
    /\ dialog = NoDialog
    /\ lastOp = Op("init", "none")
    /\ ops = 0

\* nothing is running and no modal window is open: the project view has the focus
AtProjectView == runner.pc # "running" /\ ~view.open /\ dialog.pc # "running"

\* the ResultsViewer has the focus
AtViewer == runner.pc # "running" /\ view.open /\ dialog.pc # "running"

MayAct == ops < MaxOps

Tick ==
    /\ clock < MaxClock
    /\ clock' = clock + 1
    /\ UNCHANGED <<projects, prompts, files, runner, mem, view, dialog, lastOp, ops>>

(***************************************************************************)
(* ProjectView.on_prompt_edited                                            *)
(***************************************************************************)
on_prompt_edited(i, text) ==
    /\ AtProjectView /\ MayAct
    /\ i \in DOMAIN prompts
    /\ text # prompts[i].text
    /\ prompts' = [prompts EXCEPT ![i].text = text]
    /\ runner' = IdleRunner /\ dialog' = NoDialog /\ mem' = NoRun
    /\ lastOp' = Op("on_prompt_edited", "none")
    /\ ops' = ops + 1
    /\ UNCHANGED <<clock, projects, files, view>>

(***************************************************************************)
(* TestRunner.run_test, started by ProjectView.run_test.                   *)
(***************************************************************************)
ContextsOfLen(n) == [i \in 1..n |-> i]

\* run_test up to the creation of the tasks of process_contexts_async
RunTestStart(p, n) ==
    /\ AtProjectView /\ MayAct
    /\ p \in DOMAIN prompts
    /\ runner' = [pc |-> "running",
                  runId |-> RunIdOf(clock),
                  promptId |-> prompts[p].id,
                  promptText |-> prompts[p].text,
                  contexts |-> ContextsOfLen(n),
                  tasks |-> [i \in 1..n |-> PendingTask],
                  order |-> << >>,
                  results |-> << >>,
                  returned |-> NoRun]
    /\ dialog' = NoDialog /\ mem' = NoRun
    /\ lastOp' = Op("run_test_start", "none")
    /\ ops' = ops + 1
    /\ UNCHANGED <<clock, projects, prompts, files, view>>

\* one request of query_ollama_async comes back; the requests complete in any order
ModelReply(i, reply) ==
    /\ runner.pc = "running"
    /\ i \in DOMAIN runner.tasks
    /\ ~runner.tasks[i].done
    /\ runner' = [runner EXCEPT !.tasks[i] =
                    [done |-> TRUE, reply |-> reply,
                     response |-> query_ollama_async(reply)],
                                !.order = Append(@, i)]
    /\ lastOp' = Op("model_reply", "none")
    /\ UNCHANGED <<clock, projects, prompts, files, mem, view, dialog, ops>>

\* variant: results.insert(0, ...)
InsertResultFirst(results, contexts, tasks, k) ==
    <<NewResult(contexts[k], tasks[k].response)>> \o results

\* results.append(...) of process_contexts_async, for the k-th (context, task) pair
AppendResult(results, contexts, tasks, k) ==
    Append(results, NewResult(contexts[k], tasks[k].response))

\* `response = await task; results.append(...)` for the next pair in input order
AwaitTask ==
    /\ runner.pc = "running"
    /\ Len(runner.results) < Len(runner.tasks)
    /\ runner.tasks[Len(runner.results) + 1].done
    /\ runner' = [runner EXCEPT !.results =
                    AppendResult(@, runner.contexts, runner.tasks,
                                 Len(runner.results) + 1)]
    /\ lastOp' = Op("await_task", "none")
    /\ UNCHANGED <<clock, projects, prompts, files, mem, view, dialog, ops>>

\* the test_run dict run_test builds
BuildTestRun(r, now) ==
    [runId |-> r.runId, projectName |-> ProjectName, promptId |-> r.promptId,
     promptText |-> r.promptText, timestamp |-> now, results |-> r.results]

FirstRow(t) == IF Len(t.results) > 0 THEN 0 ELSE -1

OpenView(t) == [open |-> TRUE, current_row |-> FirstRow(t),
                strip_whitespace |-> TRUE, strip_punctuation |-> TRUE]

\* run_test from the end of process_contexts_async: build, save, return; the
\* caller then shows the run in a TestResultsDialog.  A failing write raises.
RunTestFinish(diskOk) ==
    /\ runner.pc = "running"
    /\ Len(runner.results) = Len(runner.tasks)
    /\ LET t == BuildTestRun(runner, clock) IN
       IF diskOk
       THEN /\ files' = save_results(files, t)
            /\ runner' = [runner EXCEPT !.pc = "returned", !.returned = t]
            /\ mem' = t
            /\ view' = OpenView(t)
            /\ lastOp' = OpAt("run_test", "none", TRUE, FilePath(t.projectName, t.runId))
       ELSE /\ runner' = [runner EXCEPT !.pc = "raised"]
            /\ lastOp' = Op("run_test", "StorageError")
            /\ UNCHANGED <<files, mem, view>>
    /\ UNCHANGED <<clock, projects, prompts, dialog, ops>>

(***************************************************************************)
(* TestRunsViewer: view, delete.                                           *)
(***************************************************************************)
view_run(path) ==
    /\ AtProjectView /\ MayAct
    /\ path \in DOMAIN files
    /\ mem' = json_load(files[path])
    /\ view' = OpenView(json_load(files[path]))
    /\ runner' = IdleRunner /\ dialog' = NoDialog
    /\ lastOp' = OpAt("view_run", "none", FALSE, path)
    /\ ops' = ops + 1
    /\ UNCHANGED <<clock, projects, prompts, files>>

delete_run(path) ==
    /\ AtProjectView /\ MayAct
    /\ path \in DOMAIN files
    /\ files' = Unlink(files, path)
    /\ runner' = IdleRunner /\ dialog' = NoDialog /\ mem' = NoRun
    /\ lastOp' = OpAt("delete_run", "none", FALSE, path)
    /\ ops' = ops + 1
    /\ UNCHANGED <<clock, projects, prompts, view>>

\* the dialog that shows a run is closed
CloseViewer ==
    /\ AtViewer /\ MayAct
    /\ view' = NoView
    /\ mem' = NoRun
    /\ runner' = IdleRunner /\ dialog' = NoDialog
    /\ lastOp' = Op("close", "none")
    /\ ops' = ops + 1
    /\ UNCHANGED <<clock, projects, prompts, files>>


(***************************************************************************)
(* ResultsViewer: navigation, manual validation, skip, the strip options.  *)
(***************************************************************************)
RowCount == Len(mem.results)

\* self.current_result is results[currentRow], None when the list is empty
HasCurrent == view.current_row >= 0

\* 1-based index of the displayed result
Cur == view.current_row + 1

\* show_next: the row after the current one, if there is one
NextRow(row, count) == IF row < count - 1 THEN row + 1 ELSE row

show_next ==
    /\ AtViewer /\ MayAct
    /\ view.current_row < RowCount - 1
    /\ view' = [view EXCEPT !.current_row = NextRow(@, RowCount)]
    /\ runner' = IdleRunner /\ dialog' = NoDialog
    /\ lastOp' = Op("show_next", "none")
    /\ ops' = ops + 1
    /\ UNCHANGED <<clock, projects, prompts, files, mem>>

show_previous ==
    /\ AtViewer /\ MayAct
    /\ view.current_row > 0
    /\ view' = [view EXCEPT !.current_row = @ - 1]
    /\ runner' = IdleRunner /\ dialog' = NoDialog
    /\ lastOp' = Op("show_previous", "none")
    /\ ops' = ops + 1
    /\ UNCHANGED <<clock, projects, prompts, files, mem>>

\* the test run after the manual channel of result i is set
WithManual(t, i, status) == [t EXCEPT !.results[i] = RecordManual(@, status)]

\* validate_result(success): record, save the whole run, move on; a failed
\* save is reported and the handler returns before show_next
validate_result(success, diskOk) ==
    /\ AtViewer /\ MayAct
    /\ HasCurrent
    /\ LET t == WithManual(mem, Cur, IF success THEN PyTrue ELSE PyFalse)
           missing == save_validation_raises(files, ProjectName, t.runId)
       IN  /\ mem' = t
           /\ IF missing \/ ~diskOk
              THEN /\ lastOp' = Op("validate_result",
                                   IF missing THEN "NotFound" ELSE "StorageError")
                   /\ UNCHANGED <<files, view>>
              ELSE /\ files' = save_validation(files, ProjectName, t.runId, t)
                   /\ view' = [view EXCEPT !.current_row = NextRow(@, RowCount)]
                   /\ lastOp' = OpAt("validate_result", "none", TRUE,
                                     FilePath(ProjectName, t.runId))
    /\ runner' = IdleRunner /\ dialog' = NoDialog
    /\ ops' = ops + 1
    /\ UNCHANGED <<clock, projects, prompts>>

\* skip_result: record "skipped" and move on; the handler does not save
skip_result ==
    /\ AtViewer /\ MayAct
    /\ HasCurrent
    /\ mem' = WithManual(mem, Cur, Skipped)
    /\ view' = [view EXCEPT !.current_row = NextRow(@, RowCount)]
    /\ runner' = IdleRunner /\ dialog' = NoDialog
    /\ lastOp' = Op("skip_result", "none")
    /\ ops' = ops + 1
    /\ UNCHANGED <<clock, projects, prompts, files>>

PyBool(b) == IF b THEN PyTrue ELSE PyFalse

\* the status _update_openai_validation computes for a result
StrippedStatus(r, ws, punct) ==
    PyBool(Normalise(r.modelResponse, ws, punct) = Normalise(r.openai.response, ws, punct))

\* _update_openai_validation, run when a strip option changes state
update_openai_validation(v, diskOk) ==
    IF ~HasCurrent \/ ~HasOpenai(mem.results[Cur])
    THEN /\ lastOp' = Op("update_openai_validation", "none")
         /\ UNCHANGED <<mem, files>>
    ELSE LET t == [mem EXCEPT !.results[Cur].openai.status =
                      StrippedStatus(mem.results[Cur], v.strip_whitespace,
                                     v.strip_punctuation)]
             missing == save_validation_raises(files, ProjectName, t.runId)
         IN  /\ mem' = t
             /\ IF missing \/ ~diskOk
                THEN /\ lastOp' = Op("update_openai_validation",
                                     IF missing THEN "NotFound" ELSE "StorageError")
                     /\ UNCHANGED files
                ELSE /\ files' = save_validation(files, ProjectName, t.runId, t)
                     /\ lastOp' = OpAt("update_openai_validation", "none", TRUE,
                                       FilePath(ProjectName, t.runId))

toggle_strip_whitespace(diskOk) ==
    /\ AtViewer /\ MayAct
    /\ view' = [view EXCEPT !.strip_whitespace = ~@]
    /\ update_openai_validation(view', diskOk)
    /\ runner' = IdleRunner /\ dialog' = NoDialog
    /\ ops' = ops + 1
    /\ UNCHANGED <<clock, projects, prompts>>

toggle_strip_punctuation(diskOk) ==
    /\ AtViewer /\ MayAct
    /\ view' = [view EXCEPT !.strip_punctuation = ~@]
    /\ update_openai_validation(view', diskOk)
    /\ runner' = IdleRunner /\ dialog' = NoDialog
    /\ ops' = ops + 1
    /\ UNCHANGED <<clock, projects, prompts>>


(***************************************************************************)
(* BatchValidationDialog and OpenAIValidator.validate_batch.               *)
(***************************************************************************)
Min(a, b) == IF a < b THEN a ELSE b

\* the number of results without the "openai" channel (setup_ui)
UnvalidatedCount(results) == Count(results, LAMBDA r : ~HasOpenai(r))

\* QSpinBox.setRange(1, unvalidated): an upper end below 1 becomes 1
SpinMax(unvalidated) == IF unvalidated < 1 THEN 1 ELSE unvalidated

\* set_count: min(count, unvalidated), then clamped by the spin box
set_count(count, unvalidated) ==
    LET c == Min(count, unvalidated) IN
    IF c < 1 THEN 1 ELSE IF c > SpinMax(unvalidated) THEN SpinMax(unvalidated) ELSE c

\* variant: positions in the slice are used as indexes into test_run
SlicedIndexesRelative(results, start_index) ==
    [k \in 1..(Len(results) - start_index) |-> k]

\* the indexes (in test_run) of the results of modified_test_run:
\* results[start_index:] when start_index > 0, all of them otherwise
SlicedIndexes(results, start_index) ==
    [k \in 1..(Len(results) - start_index) |-> start_index + k]

\* s[:n] of Python: the first n elements, all of s when n > len(s), and all
\* but the last -n elements when n is negative
SliceTo(s, n) ==
    IF n >= 0 THEN SubSeq(s, 1, Min(n, Len(s)))
    ELSE IF Len(s) + n > 0 THEN SubSeq(s, 1, Len(s) + n)
    ELSE << >>

\* variant: the results that already have the channel are selected too
ToValidateJudgedToo(results, start_index, count) ==
    SliceTo(SlicedIndexes(results, start_index), count)

\* variant: unvalidated[:count + 1]
ToValidateOneMore(results, start_index, count) ==
    LET unvalidated == SelectSeq(SlicedIndexes(results, start_index),
                                 LAMBDA i : ~HasOpenai(results[i]))
    IN  SubSeq(unvalidated, 1, Min(count + 1, Len(unvalidated)))

\* unvalidated[:count] of validate_batch, as indexes into test_run["results"]
ToValidate(results, start_index, count) ==
    LET unvalidated == SelectSeq(SlicedIndexes(results, start_index),
                                 LAMBDA i : ~HasOpenai(results[i]))
    IN  SliceTo(unvalidated, count)

PendingJudge == [done |-> FALSE, reply |-> NoJudgeReply, status |-> PyFalse]

\* the dialog is built on test_run, the count is chosen, Run is pressed and
\* validate_batch creates one task per selected result
StartedDialog(t, fromViewer, start_index, count) ==
    [pc |-> "running",
     fromViewer |-> fromViewer,
     unvalidated |-> UnvalidatedCount(t.results),
     count |-> count,
     start_index |-> start_index,
     to_validate |-> ToValidate(t.results, start_index, count),
     tasks |-> [k \in DOMAIN ToValidate(t.results, start_index, count) |-> PendingJudge],
     completed |-> 0,
     progress |-> << >>,
     before |-> t,
     stats |-> NoStats]

\* ResultsViewer._run_openai_validation ("Validate Current")
run_openai_validation ==
    /\ AtViewer /\ MayAct
    /\ HasCurrent
    /\ dialog' = StartedDialog(mem, TRUE, view.current_row,
                               set_count(1, UnvalidatedCount(mem.results)))
    /\ runner' = IdleRunner
    /\ lastOp' = Op("run_openai_validation", "none")
    /\ ops' = ops + 1
    /\ UNCHANGED <<clock, projects, prompts, files, mem, view>>

\* ResultsViewer._run_openai_batch_validation ("Batch Validate All")
run_openai_batch_validation(count) ==
    /\ AtViewer /\ MayAct
    /\ count \in 1..SpinMax(UnvalidatedCount(mem.results))
    /\ dialog' = StartedDialog(mem, TRUE, 0, count)
    /\ runner' = IdleRunner
    /\ lastOp' = Op("run_openai_batch_validation", "none")
    /\ ops' = ops + 1
    /\ UNCHANGED <<clock, projects, prompts, files, mem, view>>

\* the prompt batch_validate_run finds for a run: the first with the run's promptId
PromptFor(ps, promptId) ==
    LET hits == SelectSeq(ps, LAMBDA q : q.id = promptId) IN
    IF Len(hits) > 0 THEN [found |-> TRUE, text |-> hits[1].text]
    ELSE [found |-> FALSE, text |-> ""]

\* the test_run batch_validate_run hands to the dialog: the loaded run with
\* promptText replaced by the text the project's prompt has now
RunForBatch(loaded, prompt) == [loaded EXCEPT !.promptText = prompt.text]

\* TestRunsViewer.batch_validate_run ("Batch OpenAI Validate" on the list)
batch_validate_run(path, count) ==
    /\ AtProjectView /\ MayAct
    /\ path \in DOMAIN files
    /\ LET loaded == json_load(files[path])
           prompt == PromptFor(prompts, loaded.promptId)
       IN  IF prompt.found
           THEN /\ count \in 1..SpinMax(UnvalidatedCount(loaded.results))
                /\ mem' = RunForBatch(loaded, prompt)
                /\ dialog' = StartedDialog(RunForBatch(loaded, prompt), FALSE, 0, count)
                /\ lastOp' = OpAt("batch_validate_run", "none", FALSE, path)
           ELSE /\ count = 1
                /\ mem' = NoRun
                /\ dialog' = NoDialog
                /\ lastOp' = Op("batch_validate_run", "PromptNotFound")
    /\ runner' = IdleRunner
    /\ ops' = ops + 1
    /\ UNCHANGED <<clock, projects, prompts, files, view>>

\* variant: the callback gets the task's position, not the completed count
JudgeReplyReportsIndex(k, reply) ==
    /\ dialog.pc = "running"
    /\ k \in DOMAIN dialog.tasks
    /\ ~dialog.tasks[k].done
    /\ LET validation == validate_response(reply) IN
       /\ mem' = [mem EXCEPT !.results[dialog.to_validate[k]] =
                      RecordOpenai(@, validation)]
       /\ dialog' = [dialog EXCEPT
                       !.tasks[k] = [done |-> TRUE, reply |-> reply,
                                     status |-> validation.status],
                       !.completed = @ + 1,
                       !.progress = Append(@, <<k,
                                                Len(dialog.to_validate)>>)]
    /\ lastOp' = Op("judge_reply", "none")
    /\ UNCHANGED <<clock, projects, prompts, files, runner, view, ops>>

\* variant: every task writes the first selected result
JudgeReplyWritesFirst(k, reply) ==
    /\ dialog.pc = "running"
    /\ k \in DOMAIN dialog.tasks
    /\ ~dialog.tasks[k].done
    /\ LET validation == validate_response(reply) IN
       /\ mem' = [mem EXCEPT !.results[dialog.to_validate[1]] =
                      RecordOpenai(@, validation)]
       /\ dialog' = [dialog EXCEPT
                       !.tasks[k] = [done |-> TRUE, reply |-> reply,
                                     status |-> validation.status],
                       !.completed = @ + 1,
                       !.progress = Append(@, <<dialog.completed + 1,
                                                Len(dialog.to_validate)>>)]
    /\ lastOp' = Op("judge_reply", "none")
    /\ UNCHANGED <<clock, projects, prompts, files, runner, view, ops>>

\* variant: the engine saves the run after each outcome it records
JudgeReplySaves(k, reply) ==
    /\ dialog.pc = "running"
    /\ k \in DOMAIN dialog.tasks
    /\ ~dialog.tasks[k].done
    /\ LET validation == validate_response(reply) IN
       /\ mem' = [mem EXCEPT !.results[dialog.to_validate[k]] =
                      RecordOpenai(@, validation)]
       /\ dialog' = [dialog EXCEPT
                       !.tasks[k] = [done |-> TRUE, reply |-> reply,
                                     status |-> validation.status],
                       !.completed = @ + 1,
                       !.progress = Append(@, <<dialog.completed + 1,
                                                Len(dialog.to_validate)>>)]
    /\ files' = save_validation(files, ProjectName, mem.runId, mem')
    /\ lastOp' = Op("judge_reply", "none")
    /\ UNCHANGED <<clock, projects, prompts, runner, view, ops>>

\* one judge request comes back: process_single_validation records the outcome
\* on its result, counts it and calls the progress callback
JudgeReply(k, reply) ==
    /\ dialog.pc = "running"
    /\ k \in DOMAIN dialog.tasks
    /\ ~dialog.tasks[k].done
    /\ LET validation == validate_response(reply) IN
       /\ mem' = [mem EXCEPT !.results[dialog.to_validate[k]] =
                      RecordOpenai(@, validation)]
       /\ dialog' = [dialog EXCEPT
                       !.tasks[k] = [done |-> TRUE, reply |-> reply,
                                     status |-> validation.status],
                       !.completed = @ + 1,
                       !.progress = Append(@, <<dialog.completed + 1,
                                                Len(dialog.to_validate)>>)]
    /\ lastOp' = Op("judge_reply", "none")
    /\ UNCHANGED <<clock, projects, prompts, files, runner, view, ops>>

\* bool(status) of Python
Truthy(v) == v = PyTrue \/ (v[1] = "str" /\ v[2] # "")

\* the statistics validate_batch returns
BatchStats(total, tasks) ==
    LET validated == Len(tasks)
        success == Cardinality({k \in DOMAIN tasks : Truthy(tasks[k].status)})
    IN  [total |-> total, validated |-> validated, success |-> success,
         failed |-> validated - success,
         success_rate |-> Percent(success, validated)]

\* variant: modified_test_run (the slice from start_index) is saved
RunToSaveModified(t, d) ==
    IF d.start_index > 0
    THEN [t EXCEPT !.results = SubSeq(t.results, d.start_index + 1, Len(t.results))]
    ELSE t

\* the run _validate_batch hands to save_validation: self.test_run
RunToSave(t, d) == t

\* gather returns: validate_batch computes the statistics, _validate_batch saves
\* the run (a failed save is reported, the statistics are still returned), the
\* dialog is accepted and the viewer, if any, reloads its list
BatchFinish(diskOk) ==
    /\ dialog.pc = "running"
    /\ \A k \in DOMAIN dialog.tasks : dialog.tasks[k].done
    /\ dialog' = [dialog EXCEPT !.pc = "done",
                                !.stats = BatchStats(Len(dialog.to_validate), dialog.tasks)]
    /\ LET t == RunToSave(mem, dialog)
           missing == save_validation_raises(files, ProjectName, mem.runId)
       IN  IF missing \/ ~diskOk
           THEN /\ lastOp' = Op("validate_batch",
                                IF missing THEN "NotFound" ELSE "StorageError")
                /\ UNCHANGED files
           ELSE /\ files' = save_validation(files, ProjectName, mem.runId, t)
                /\ lastOp' = OpAt("validate_batch", "none", TRUE,
                                  FilePath(ProjectName, mem.runId))
    /\ view' = IF dialog.fromViewer
               THEN [view EXCEPT !.current_row = FirstRow(mem)]
               ELSE view
    /\ UNCHANGED <<clock, projects, prompts, runner, mem, ops>>

(***************************************************************************)
(* The specification.                                                      *)
(***************************************************************************)
\* the replies the endpoints give in Spec; SpecRun and SpecJudge give them all
SpecModelReplies == {r \in ModelReplies : r.hasResponse \/ r.http >= 400}

SpecJudgeReplies ==
    {r \in JudgeReplies : r.http >= 400 \/ r.content \in
        {ContentValidTrue, ContentValidFalse, ContentValidText}}

Next ==
    \/ Tick
    \/ \E i \in 1..1, text \in PromptTexts : on_prompt_edited(i, text)
    \/ \E p \in 1..1, n \in 0..MaxContexts : RunTestStart(p, n)
    \/ \E i \in 1..MaxContexts, reply \in SpecModelReplies : ModelReply(i, reply)
    \/ AwaitTask
    \/ RunTestFinish(TRUE)
    \/ \E path \in DOMAIN files : view_run(path)
    \/ \E path \in DOMAIN files : delete_run(path)
    \/ CloseViewer
    \/ show_next
    \/ show_previous
    \/ \E success \in BOOLEAN : validate_result(success, TRUE)
    \/ skip_result
    \/ toggle_strip_whitespace(TRUE)
    \/ toggle_strip_punctuation(TRUE)
    \/ run_openai_validation
    \/ \E count \in 1..MaxContexts : run_openai_batch_validation(count)
    \/ \E path \in DOMAIN files, count \in 1..MaxContexts : batch_validate_run(path, count)
    \/ \E k \in 1..MaxContexts, reply \in SpecJudgeReplies : JudgeReply(k, reply)
    \/ BatchFinish(TRUE)

Spec == Init /\ [][Next]_vars


(***************************************************************************)
(* SpecRun: run_test alone, with every reply of the generation endpoint    *)
(* and a write that can fail.                                              *)
(***************************************************************************)
NextRun ==
    \/ Tick
    \/ \E p \in 1..1, n \in 0..MaxContexts : RunTestStart(p, n)
    \/ \E i \in 1..MaxContexts, reply \in ModelReplies : ModelReply(i, reply)
    \/ AwaitTask
    \/ \E diskOk \in BOOLEAN : RunTestFinish(diskOk)
    \/ CloseViewer

SpecRun == Init /\ [][NextRun]_vars

(***************************************************************************)
(* SpecJudge: judge batches with every reply of the judge endpoint.        *)
(***************************************************************************)
NextJudge ==
    \/ \E p \in 1..1, n \in 0..MaxContexts : RunTestStart(p, n)
    \/ \E i \in 1..MaxContexts : ModelReply(i, CHOOSE r \in ModelReplies : r.response = AnswerYes)
    \/ AwaitTask
    \/ RunTestFinish(TRUE)
    \/ CloseViewer
    \/ show_next
    \/ \E success \in BOOLEAN : validate_result(success, TRUE)
    \/ run_openai_validation
    \/ \E count \in 1..MaxContexts : run_openai_batch_validation(count)
    \/ \E path \in DOMAIN files, count \in 1..MaxContexts : batch_validate_run(path, count)
    \/ \E k \in 1..MaxContexts, reply \in JudgeReplies : JudgeReply(k, reply)
    \/ BatchFinish(TRUE)

SpecJudge == Init /\ [][NextJudge]_vars

(***************************************************************************)
(* SpecStore: the store operations of TestRunner called directly, with     *)
(* any run and any run id.                                                 *)
(***************************************************************************)
SampleResult == NewResult(1, AnswerYes)

SampleResults ==
    { << >>,
      <<SampleResult>>,
      <<RecordManual(SampleResult, Skipped)>>,
      <<RecordOpenai(RecordManual(SampleResult, PyTrue),
                     validate_response([transport |-> "ok", http |-> 200,
                                        content |-> ContentValidFalse]))>> }

SampleRuns ==
    { [runId |-> RunIdOf(second), projectName |-> ProjectName, promptId |-> PromptId(1),
       promptText |-> text, timestamp |-> second, results |-> rs] :
         second \in 0..MaxClock, text \in PromptTexts, rs \in SampleResults }

StoreSaveResults(t) ==
    /\ files' = save_results(files, t)
    /\ mem' = t
    /\ lastOp' = OpAt("save_results", "none", TRUE, FilePath(t.projectName, t.runId))
    /\ UNCHANGED <<clock, projects, prompts, runner, view, dialog, ops>>

StoreSaveValidation(runId, t) ==
    /\ mem' = t
    /\ IF save_validation_raises(files, ProjectName, runId)
       THEN /\ lastOp' = OpAt("save_validation", "NotFound", FALSE,
                              FilePath(ProjectName, runId))
            /\ UNCHANGED files
       ELSE /\ files' = save_validation(files, ProjectName, runId, t)
            /\ lastOp' = OpAt("save_validation", "none", TRUE,
                              FilePath(ProjectName, runId))
    /\ UNCHANGED <<clock, projects, prompts, runner, view, dialog, ops>>

StoreUnlink(path) ==
    /\ files' = Unlink(files, path)
    /\ mem' = NoRun
    /\ lastOp' = OpAt("delete_run", "none", FALSE, path)
    /\ UNCHANGED <<clock, projects, prompts, runner, view, dialog, ops>>

NextStore ==
    \/ \E t \in SampleRuns : StoreSaveResults(t)
    \/ \E second \in 0..MaxClock, t \in SampleRuns : StoreSaveValidation(RunIdOf(second), t)
    \/ \E path \in DOMAIN files : StoreUnlink(path)

SpecStore == Init /\ [][NextStore]_vars

(***************************************************************************)
(* SpecList: the operations that change what list_test_runs reports: runs, *)
(* manual and judge validation, deletion; one reply of the generation      *)
(* endpoint and the judge's two boolean verdicts.                          *)
(***************************************************************************)
ListJudgeReplies ==
    {r \in JudgeReplies : r.content \in {ContentValidTrue, ContentValidFalse}}

NextList ==
    \/ Tick
    \/ \E p \in 1..1, n \in 0..MaxContexts : RunTestStart(p, n)
    \/ \E i \in 1..MaxContexts : ModelReply(i, CHOOSE r \in ModelReplies : r.response = AnswerYes)
    \/ AwaitTask
    \/ RunTestFinish(TRUE)
    \/ \E path \in DOMAIN files : view_run(path)
    \/ \E path \in DOMAIN files : delete_run(path)
    \/ CloseViewer
    \/ \E success \in BOOLEAN : validate_result(success, TRUE)
    \/ skip_result
    \/ run_openai_validation
    \/ \E k \in 1..MaxContexts, reply \in ListJudgeReplies : JudgeReply(k, reply)
    \/ BatchFinish(TRUE)

SpecList == Init /\ [][NextList]_vars

(***************************************************************************)
(* SpecBatch: OpenAIValidator.validate_batch called directly on a stored   *)
(* run, with any integer count.                                            *)
(***************************************************************************)
JudgedResult ==
    RecordOpenai(SampleResult, validate_response([transport |-> "ok", http |-> 200,
                                                  content |-> ContentValidTrue]))

BatchRuns ==
    { [runId |-> RunIdOf(0), projectName |-> ProjectName, promptId |-> PromptId(1),
       promptText |-> "New Prompt", timestamp |-> 0, results |-> rs] :
         rs \in UNION { [1..n -> {SampleResult, JudgedResult}] : n \in 0..MaxContexts } }

Counts == (0 - MaxContexts - 1)..(MaxContexts + 1)

\* validate_batch(test_run, count) up to the creation of its tasks
validate_batch(count) ==
    /\ dialog.pc # "running"
    /\ mem \in BatchRuns
    /\ dialog' = StartedDialog(mem, FALSE, 0, count)
    /\ lastOp' = Op("validate_batch_start", "none")
    /\ UNCHANGED <<clock, projects, prompts, files, runner, mem, view, ops>>

NextBatch ==
    \/ \E t \in BatchRuns : dialog.pc # "running" /\ StoreSaveResults(t)
    \/ \E count \in Counts : validate_batch(count)
    \/ \E k \in 1..MaxContexts, reply \in SpecJudgeReplies : JudgeReply(k, reply)
    \/ BatchFinish(TRUE)

SpecBatch == Init /\ [][NextBatch]_vars

(***************************************************************************)
(* Projects and prompts: ProjectManager and the prompt handlers of         *)
(* ProjectView.                                                            *)
(***************************************************************************)
MaxPrompts == 3

ProjectNames == {ProjectName, "q"}

\* ProjectManager.add_prompt, called by ProjectView.add_prompt with "New Prompt"
add_prompt ==
    /\ AtProjectView /\ MayAct
    /\ ProjectName \in projects
    /\ Len(prompts) < MaxPrompts
    /\ prompts' = Append(prompts, [id |-> PromptId(Len(prompts) + 1),
                                   text |-> "New Prompt"])
    /\ runner' = IdleRunner /\ dialog' = NoDialog /\ mem' = NoRun
    /\ lastOp' = Op("add_prompt", "none")
    /\ ops' = ops + 1
    /\ UNCHANGED <<clock, projects, files, view>>

\* self.project.prompts.pop(current)
Pop(s, i) == [k \in 1..(Len(s) - 1) |-> IF k < i THEN s[k] ELSE s[k + 1]]

\* ProjectView.delete_prompt, confirmed with Yes
delete_prompt(i) ==
    /\ AtProjectView /\ MayAct
    /\ ProjectName \in projects
    /\ i \in DOMAIN prompts
    /\ prompts' = Pop(prompts, i)
    /\ runner' = IdleRunner /\ dialog' = NoDialog /\ mem' = NoRun
    /\ lastOp' = Op("delete_prompt", "none")
    /\ ops' = ops + 1
    /\ UNCHANGED <<clock, projects, files, view>>

\* ProjectManager.create_project: None when the name is taken
create_project(name) ==
    /\ AtProjectView
    /\ IF name \in projects
       THEN /\ lastOp' = OpAt("create_project", "exists", FALSE,
                              FilePath(name, RunIdOf(0)))
            /\ UNCHANGED <<projects, prompts>>
       ELSE /\ projects' = projects \cup {name}
            /\ prompts' = IF name = ProjectName THEN << >> ELSE prompts
            /\ lastOp' = OpAt("create_project", "none", FALSE,
                              FilePath(name, RunIdOf(0)))
    /\ UNCHANGED <<clock, files, runner, mem, view, dialog, ops>>

\* variant: the loop over the files of the directory stops after the first file
remove_project_results_first_only(fs, name) ==
    IF \E q \in DOMAIN fs : q[1] = name
    THEN Unlink(fs, CHOOSE q \in DOMAIN fs : q[1] = name)
    ELSE fs

\* ProjectManager._remove_project_results: unlink every file of the directory
remove_project_results(fs, name) == [q \in {p \in DOMAIN fs : p[1] # name} |-> fs[q]]

\* ProjectManager.delete_project: False when there is no such project
delete_project(name) ==
    /\ AtProjectView
    /\ IF name \notin projects
       THEN /\ lastOp' = OpAt("delete_project", "missing", FALSE,
                              FilePath(name, RunIdOf(0)))
            /\ UNCHANGED <<projects, prompts, files>>
       ELSE /\ projects' = projects \ {name}
            /\ prompts' = IF name = ProjectName THEN << >> ELSE prompts
            /\ files' = remove_project_results(files, name)
            /\ lastOp' = OpAt("delete_project", "none", FALSE,
                              FilePath(name, RunIdOf(0)))
    /\ UNCHANGED <<clock, runner, mem, view, dialog, ops>>

(***************************************************************************)
(* SpecProject: the operations on projects and prompts, with runs saved    *)
(* for either project.                                                     *)
(***************************************************************************)
ProjectRuns ==
    { [runId |-> RunIdOf(second), projectName |-> name, promptId |-> PromptId(1),
       promptText |-> "New Prompt", timestamp |-> second, results |-> rs] :
         second \in 0..MaxClock, name \in ProjectNames,
         rs \in {<< >>, <<SampleResult>>} }

NextProject ==
    \/ \E name \in ProjectNames : create_project(name)
    \/ \E name \in ProjectNames : delete_project(name)
    \/ add_prompt
    \/ \E i \in 1..MaxPrompts : delete_prompt(i)
    \/ \E i \in 1..MaxPrompts, text \in PromptTexts : on_prompt_edited(i, text)
    \/ \E t \in ProjectRuns : StoreSaveResults(t)

SpecProject == Init /\ [][NextProject]_vars

(***************************************************************************)
(* Claims.                                                                 *)
(***************************************************************************)

\* C1: the TestRun run_test returns has exactly one result per context, and
\* results[i].context = contexts[i] for every i, whatever requests failed and
\* in whatever order the requests completed.
C1_ResultsInInputOrder ==
    runner.pc = "returned" =>
        /\ Len(runner.returned.results) = Len(runner.contexts)
        /\ \A i \in DOMAIN runner.contexts :
              runner.returned.results[i].context = runner.contexts[i]

\* a returned run of two contexts whose second request completed first and
\* whose first request failed
C1_Witness ==
    /\ runner.pc = "returned"
    /\ Len(runner.contexts) = 2
    /\ runner.order = <<2, 1>>
    /\ ModelFailed(runner.tasks[1].reply)
    /\ ~ModelFailed(runner.tasks[2].reply)

\* C7: a failed model request (transport failure or HTTP error status) does not
\* make run_test raise and drops no result: run_test raises only when the write
\* fails, and the returned run has one result per context, the result of every
\* failed request carrying "Error: " followed by the error text.
C7_FailedRequestIsRecorded ==
    /\ runner.pc = "raised" =>
          /\ lastOp.error = "StorageError"
          /\ Len(runner.results) = Len(runner.contexts)
    /\ runner.pc = "returned" =>
          /\ lastOp.error = "none"
          /\ Len(runner.returned.results) = Len(runner.contexts)
          /\ \A i \in DOMAIN runner.tasks :
                ModelFailed(runner.tasks[i].reply) =>
                    runner.returned.results[i].modelResponse =
                        ErrorPrefix \o ModelErrorText(runner.tasks[i].reply)

\* a returned run in which one request failed in transport, the other with HTTP 500
C7_Witness ==
    /\ runner.pc = "returned"
    /\ Len(runner.contexts) = 2
    /\ runner.tasks[1].reply.transport = "refused"
    /\ runner.tasks[2].reply.http = 500


\* the results of the run handed to validate_batch that lack the "openai" channel
BatchUnvalidated ==
    {i \in DOMAIN dialog.before.results :
        i > dialog.start_index /\ ~HasOpenai(dialog.before.results[i])}

\* C2: validate_batch with count = k on a run with u results lacking "openai",
\* 1 <= k <= u, ends with exactly k more results carrying "openai", and the
\* "manual" entry of every result is what it was before the call.
C2_BatchAddsCount ==
    (dialog.pc = "done" /\ 1 <= dialog.count
        /\ dialog.count <= Cardinality(BatchUnvalidated)) =>
        /\ Count(mem.results, HasOpenai) =
              Count(dialog.before.results, HasOpenai) + dialog.count
        /\ Len(mem.results) = Len(dialog.before.results)
        /\ \A i \in DOMAIN mem.results :
              /\ HasManual(mem.results[i]) = HasManual(dialog.before.results[i])
              /\ mem.results[i].manual = dialog.before.results[i].manual

\* a finished batch of count 1 on a run with two unvalidated results, one of
\* which carries a manual validation
C2_Witness ==
    /\ dialog.pc = "done"
    /\ dialog.count = 1
    /\ Cardinality(BatchUnvalidated) = 2
    /\ \E i \in DOMAIN mem.results : HasManual(mem.results[i])

C4_ListStatsAddUp ==
    \A e \in {list_test_runs(files, ProjectName)[k] :
                 k \in DOMAIN list_test_runs(files, ProjectName)} :
        /\ e.stats.manual.validated =
              e.stats.manual.success + e.stats.manual.failed + e.stats.manual.skipped
        /\ e.stats.openai.validated = e.stats.openai.success + e.stats.openai.failed
        /\ 0 <= e.stats.manual.progress /\ e.stats.manual.progress <= 100
        /\ 0 <= e.stats.openai.progress /\ e.stats.openai.progress <= 100


\* C5: save_validation for a (project, runId) without a file fails with a
\* not-found error, creates no file and changes no stored run; with a file it
\* succeeds; in neither case does the set of stored runs change.
C5_SaveValidationNeedsFile ==
    [][lastOp'.name = "save_validation" =>
          /\ DOMAIN files' = DOMAIN files
          /\ IF lastOp'.path \in DOMAIN files
             THEN lastOp'.error = "none" /\ files'[lastOp'.path] = json_dump(mem')
             ELSE lastOp'.error = "NotFound" /\ files' = files]_vars

\* save_validation has just failed on a missing file while another run is stored
C5_Witness ==
    /\ lastOp.name = "save_validation"
    /\ lastOp.error = "NotFound"
    /\ lastOp.path \notin DOMAIN files
    /\ DOMAIN files # {}

\* the failures of one judge request the claim lists
JudgeRequestFailed(reply) ==
    \/ reply.transport # "ok"
    \/ reply.http >= 400
    \/ reply.content = ContentNotJson
    \/ reply.content = ContentNoValid

\* C6: in a batch, a result whose judge request failed (transport error, HTTP
\* error status, unparseable reply, reply without the required fields) gets
\* openai.status = false and a reason starting with "Validation failed:"; the
\* batch still finishes, with every other selected result carrying the outcome
\* of its own judge reply.
C6_FailedJudgeIsRecorded ==
    /\ dialog.pc \in {"running", "done"} =>
          \A k \in DOMAIN dialog.tasks :
              dialog.tasks[k].done =>
                  LET r == mem.results[dialog.to_validate[k]]
                      reply == dialog.tasks[k].reply
                  IN  /\ HasOpenai(r)
                      /\ IF JudgeRequestFailed(reply)
                         THEN /\ r.openai.status = PyFalse
                              /\ Len(r.openai.reason) = 2
                              /\ r.openai.reason[1] = ValidationFailedPrefix
                         ELSE /\ r.openai.status = ParseJudgeContent(reply.content).valid
                              /\ r.openai.response = reply.content
    /\ dialog.pc = "done" =>
          /\ \A k \in DOMAIN dialog.tasks : dialog.tasks[k].done
          /\ dialog.stats.validated = Len(dialog.to_validate)

\* a finished batch of two: the first judge request got HTTP 500, the second a
\* reply judging the response valid
C6_Witness ==
    /\ dialog.pc = "done"
    /\ Len(dialog.tasks) = 2
    /\ dialog.tasks[1].reply.http = 500
    /\ dialog.tasks[2].reply.content = ContentValidTrue
    /\ mem.results[dialog.to_validate[2]].openai.status = PyTrue


\* context and modelResponse of every result, in order
Core(results) ==
    [i \in DOMAIN results |-> <<results[i].context, results[i].modelResponse>>]

ValidationOps ==
    {"validate_result", "skip_result", "update_openai_validation",
     "run_openai_validation", "run_openai_batch_validation", "batch_validate_run",
     "judge_reply", "validate_batch"}

\* C8: manual validate, skip, a judge batch (with or without a start offset),
\* an option change and the save_validation they perform keep the results of
\* the run in memory and of every stored run at the same length, in the same
\* order, with the same context and modelResponse at every index.
C8_ResultsListIsFixed ==
    [][lastOp'.name \in ValidationOps =>
          /\ \A path \in DOMAIN files :
                /\ path \in DOMAIN files'
                /\ Core(files'[path].results) = Core(files[path].results)
          /\ (lastOp'.name # "batch_validate_run") =>
                Core(mem'.results) = Core(mem.results)
          /\ (mem' # NoRun /\ FileExists(files', mem'.projectName, mem'.runId)) =>
                Core(mem'.results) =
                    Core(load_results(files', mem'.projectName, mem'.runId).results)]_vars

\* a batch with a start offset has judged one result and saved the run
C8_Witness ==
    /\ lastOp.name = "validate_batch"
    /\ lastOp.saved
    /\ dialog.start_index > 0
    /\ Len(dialog.to_validate) = 1
    /\ Len(mem.results) = 2

\* the channel keys of a stored result
ChannelKeys(jr) ==
    (IF jr.hasValidations /\ jr.manual.present THEN {"manual"} ELSE {})
    \cup (IF jr.hasValidations /\ jr.openai.present THEN {"openai"} ELSE {})

\* C9: under every operation that neither deletes a run nor creates one
\* (manual validate, skip, judge batch, option change, their saves, viewing,
\* editing a prompt), every stored run stays stored and the channel keys of
\* each of its results only grow.
C9_ChannelKeysOnlyGrow ==
    [][lastOp'.name \notin {"delete_run", "run_test"} =>
          \A path \in DOMAIN files :
              /\ path \in DOMAIN files'
              /\ DOMAIN files'[path].results = DOMAIN files[path].results
              /\ \A i \in DOMAIN files[path].results :
                    ChannelKeys(files[path].results[i])
                        \subseteq ChannelKeys(files'[path].results[i])]_vars

\* a manual validation has been saved on a result that already carried "openai"
C9_Witness ==
    /\ lastOp.name = "validate_result"
    /\ lastOp.saved
    /\ \E i \in DOMAIN files[lastOp.path].results :
          ChannelKeys(files[lastOp.path].results[i]) = {"manual", "openai"}

\* C10: the promptText of a stored run is the text run_test was called with
\* and no later operation changes it.
C10_PromptTextIsSnapshot ==
    [][lastOp'.name # "run_test" =>
          \A path \in DOMAIN files \cap DOMAIN files' :
              files'[path].promptText = files[path].promptText]_vars

PromptIds(ps) == {ps[i].id : i \in DOMAIN ps}

\* C11: the prompts of the project have pairwise distinct ids, an edit leaves
\* every id as it was, and add_prompt gives the new prompt an id that no
\* prompt of the project has.
C11_PromptIdsDistinct ==
    [][/\ \A i, j \in DOMAIN prompts' : i # j => prompts'[i].id # prompts'[j].id
       /\ lastOp'.name = "on_prompt_edited" =>
             /\ DOMAIN prompts' = DOMAIN prompts
             /\ \A i \in DOMAIN prompts : prompts'[i].id = prompts[i].id
       /\ lastOp'.name = "add_prompt" =>
             prompts'[Len(prompts')].id \notin PromptIds(prompts)]_vars

RunFilesOf(fs, name) == {q \in DOMAIN fs : q[1] = name}

\* C13: a delete_project that finds the project leaves no run file of that
\* project, so list_test_runs is empty and load_results finds no file for any
\* run id; creating a project (also one of the same name) brings no run back.
C13_DeleteProjectRemovesRuns ==
    [][/\ (lastOp'.name = "delete_project" /\ lastOp'.error = "none") =>
             /\ lastOp'.path[1] \in projects
             /\ RunFilesOf(files', lastOp'.path[1]) = {}
             /\ list_test_runs(files', lastOp'.path[1]) = << >>
             /\ \A second \in 0..MaxClock :
                   ~FileExists(files', lastOp'.path[1], RunIdOf(second))
             /\ \A q \in DOMAIN files : q[1] # lastOp'.path[1] =>
                   q \in DOMAIN files' /\ files'[q] = files[q]
       /\ lastOp'.name = "create_project" => files' = files]_vars

\* a project was deleted right after a run of it was saved, while the other
\* project has run files
C13_Witness ==
    /\ lastOp.name = "delete_project" /\ lastOp.error = "none"
    /\ lastOp.path[1] = ProjectName
    /\ mem.projectName = ProjectName /\ mem.results # << >>
    /\ RunFilesOf(files, ProjectName) = {}
    /\ RunFilesOf(files, "q") # {}

ManualChannel(r) == IF HasManual(r) THEN r.manual ELSE NoManual

OpenaiChannel(r) == IF HasOpenai(r) THEN r.openai ELSE NoOpenai

\* C12: Success, Fail and Skip on the displayed result change the "manual"
\* channel of that result only (in the run and, once saved, in its file), and
\* a judge validation changes no "manual" channel.
C12_ChannelsAreIndependent ==
    [][/\ (lastOp'.name \in {"validate_result", "skip_result"} /\ ops' = ops + 1) =>
             /\ DOMAIN mem'.results = DOMAIN mem.results
             /\ HasManual(mem'.results[Cur])
             /\ \A j \in DOMAIN mem.results :
                   /\ OpenaiChannel(mem'.results[j]) = OpenaiChannel(mem.results[j])
                   /\ j # Cur =>
                         ManualChannel(mem'.results[j]) = ManualChannel(mem.results[j])
             /\ lastOp'.saved =>
                   \A j \in DOMAIN mem.results :
                       OpenaiChannel(load_results(files', mem.projectName, mem.runId).results[j])
                         = OpenaiChannel(load_results(files, mem.projectName, mem.runId).results[j])
       /\ lastOp'.name \in {"judge_reply", "validate_batch"} =>
             /\ DOMAIN mem'.results = DOMAIN mem.results
             /\ \A j \in DOMAIN mem.results :
                   ManualChannel(mem'.results[j]) = ManualChannel(mem.results[j])
             /\ lastOp'.saved =>
                   \A j \in DOMAIN mem.results :
                       ManualChannel(load_results(files', mem.projectName, mem.runId).results[j])
                         = ManualChannel(mem.results[j])]_vars

\* a manual verdict was saved on a run in which a result carries both channels
\* and another result carries the judge's channel alone
C12_Witness ==
    /\ lastOp.name = "validate_result" /\ lastOp.saved
    /\ \E i, j \in DOMAIN mem.results :
          /\ HasManual(mem.results[i]) /\ HasOpenai(mem.results[i])
          /\ ~HasManual(mem.results[j]) /\ HasOpenai(mem.results[j])

\* C14: a run_test that returns saves its run under a run id that no stored
\* run of the project has, so the save overwrites no other run's file.
C14_RunIdIsFresh ==
    [][(runner.pc = "running" /\ runner'.pc = "returned") =>
          ~FileExists(files, runner'.returned.projectName, runner'.returned.runId)]_vars

SelectedWithStatusTrue(d, t) ==
    Cardinality({k \in DOMAIN d.to_validate :
                    /\ HasOpenai(t.results[d.to_validate[k]])
                    /\ t.results[d.to_validate[k]].openai.status = PyTrue})

\* C15: the statistics validate_batch returns are total = validated = the
\* number of selected results, success = the number of them recorded with
\* status true, failed = validated - success, and success_rate =
\* success / validated * 100, 0 when nothing was selected.
C15_BatchStatsAddUp ==
    [][(dialog.pc = "running" /\ dialog'.pc = "done") =>
          /\ dialog'.stats.total = Len(dialog.to_validate)
          /\ dialog'.stats.validated = dialog'.stats.total
          /\ dialog'.stats.success = SelectedWithStatusTrue(dialog, mem')
          /\ dialog'.stats.failed = dialog'.stats.validated - dialog'.stats.success
          /\ dialog'.stats.validated = 0 => dialog'.stats.success_rate = 0
          /\ dialog'.stats.validated > 0 =>
                /\ dialog'.stats.success_rate * dialog'.stats.validated
                      <= dialog'.stats.success * 100
                /\ dialog'.stats.success * 100
                      < (dialog'.stats.success_rate + 1) * dialog'.stats.validated]_vars

NewlyJudged(before, after) ==
    {i \in DOMAIN after.results : HasOpenai(after.results[i]) /\ ~HasOpenai(before.results[i])}

\* C16: validate_batch ends normally for every count; with a count above the
\* number of results lacking the "openai" channel it validates exactly those,
\* and it never populates the channel of more results than count (of any
\* result when count is below 1).
C16_CountOutOfRange ==
    [][(dialog.pc = "running" /\ dialog'.pc = "done") =>
          /\ DOMAIN mem'.results = DOMAIN dialog.before.results
          /\ dialog.count > dialog.unvalidated =>
                /\ Cardinality(NewlyJudged(dialog.before, mem')) = dialog.unvalidated
                /\ \A i \in DOMAIN mem'.results : HasOpenai(mem'.results[i])
          /\ Cardinality(NewlyJudged(dialog.before, mem'))
                <= (IF dialog.count > 0 THEN dialog.count ELSE 0)]_vars

\* C17: when run_test has returned a TestRun, the store holds it: load_results
\* on its project and run id yields that TestRun; when the write failed,
\* run_test raised the storage error and returned nothing.
C17_RunIsPersistedBeforeReturn ==
    /\ runner.pc = "returned" =>
          /\ lastOp.name = "run_test" => lastOp.error = "none"
          /\ FileExists(files, runner.returned.projectName, runner.returned.runId)
          /\ load_results(files, runner.returned.projectName, runner.returned.runId)
                = runner.returned
    /\ runner.pc = "raised" =>
          /\ runner.returned = NoRun
          /\ lastOp.name = "run_test" /\ lastOp.error = "StorageError"

\* run_test has returned a run with results, one of them a failed request
C17_Witness ==
    /\ runner.pc = "returned"
    /\ lastOp.name = "run_test"
    /\ \E i \in DOMAIN runner.returned.results :
          /\ Len(runner.returned.results[i].modelResponse) >= Len(ErrorPrefix)
          /\ SubSeq(runner.returned.results[i].modelResponse, 1, Len(ErrorPrefix))
                = ErrorPrefix

RunIdsListed(l) == {l[k].runId : k \in DOMAIN l}

IsRate(rate, part, whole) ==
    /\ whole >= 0
    /\ 0 <= rate /\ rate <= 100
    /\ whole = 0 => rate = 0
    /\ whole > 0 => (rate * whole <= part * 100 /\ part * 100 < (rate + 1) * whole)

\* C19: in the stats of every stored run, manual.successRate is success over
\* (validated - skipped) and openai.successRate is success over validated, in
\* percent; each is 0 when its denominator is 0 and lies in 0..100.
C19_SuccessRates ==
    \A k \in DOMAIN list_test_runs(files, ProjectName) :
        LET stats == list_test_runs(files, ProjectName)[k].stats IN
        /\ IsRate(stats.manual.successRate, stats.manual.success,
                  stats.manual.validated - stats.manual.skipped)
        /\ IsRate(stats.openai.successRate, stats.openai.success, stats.openai.validated)

\* a stored run with one success and one skipped result: the rate is 100
C19_Witness ==
    \E k \in DOMAIN list_test_runs(files, ProjectName) :
        LET stats == list_test_runs(files, ProjectName)[k].stats IN
        /\ stats.manual.skipped = 1 /\ stats.manual.success = 1
        /\ stats.manual.successRate = 100
        /\ stats.openai.validated = 0 /\ stats.openai.successRate = 0

SelectedJudged(d, t) ==
    {k \in DOMAIN d.to_validate : HasOpenai(t.results[d.to_validate[k]])}

\* C20: in a batch of n selected results the progress callback has been called
\* with (1,n), (2,n), ... in that order, once per completed judge call, and
\* after its j-th call exactly j selected results carry the "openai" channel;
\* when the batch is done it was called n times and the results carrying the
\* channel are those that had it before plus the selected ones, whatever the
\* order of completion.
C20_ProgressCountsCompletions ==
    dialog.pc \in {"running", "done"} =>
        LET n == Len(dialog.to_validate) IN
        /\ dialog.progress = [j \in 1..dialog.completed |-> <<j, n>>]
        /\ Cardinality(SelectedJudged(dialog, mem)) = dialog.completed
        /\ dialog.completed <= n
        /\ dialog.pc = "done" =>
              /\ Len(dialog.progress) = n
              /\ \A i \in DOMAIN mem.results :
                    HasOpenai(mem.results[i]) <=>
                        \/ HasOpenai(dialog.before.results[i])
                        \/ \E k \in DOMAIN dialog.to_validate : dialog.to_validate[k] = i

\* the second of two judge calls has completed before the first
C20_Witness ==
    /\ dialog.pc = "running"
    /\ Len(dialog.to_validate) = 2
    /\ dialog.tasks[2].done /\ ~dialog.tasks[1].done
    /\ dialog.progress = << <<1, 2>> >>


\* C21: the validation engine does not write to the store: while a batch is
\* running no step changes any file; the step that ends the batch happens only
\* when every selected judge call has completed and every progress callback has
\* been invoked, and it is the one save_validation of the whole run.
C21_EngineDoesNotWrite ==
    [][/\ (dialog.pc = "running" /\ dialog'.pc = "running") => files' = files
       /\ (dialog.pc = "running" /\ dialog'.pc = "done") =>
            /\ \A k \in DOMAIN dialog.tasks : dialog.tasks[k].done
            /\ Len(dialog.progress) = Len(dialog.to_validate)
            /\ \A k \in DOMAIN dialog.to_validate :
                   HasOpenai(mem.results[dialog.to_validate[k]])
            /\ lastOp'.name = "validate_batch" /\ lastOp'.saved
            /\ files' = [files EXCEPT ![FilePath(ProjectName, mem.runId)] = json_dump(mem)]
            /\ mem' = mem
      ]_vars

\* a two-result batch has ended and its one save holds the whole run
C21_Witness ==
    /\ dialog.pc = "done"
    /\ Len(dialog.to_validate) = 2
    /\ Len(dialog.progress) = 2
    /\ lastOp.name = "validate_batch" /\ lastOp.saved
    /\ files[lastOp.path] = json_dump(mem)
    /\ Len(mem.results) = 2


\* C22: "Validate Current" on the displayed result at index i judges result i
\* and no other result: the batch it starts selects nothing but result i,
\* whatever channels result i and the results before it already carry.
C22_ValidateCurrentJudgesCurrent ==
    [][(lastOp'.name = "run_openai_validation" /\ ops' = ops + 1) =>
           \A k \in DOMAIN dialog'.to_validate :
               dialog'.to_validate[k] = view.current_row + 1
      ]_vars


(***************************************************************************)
(* SpecCrash: save_results and save_validation step by step. open(path,    *)
(* 'w') truncates the file, json.dump then writes the document through the *)
(* file object, and leaving the with block closes it. The process can die, *)
(* or a write can raise, after any of the steps.                           *)
(***************************************************************************)
\* the content of a file that open(file_path, 'w') has just truncated
EmptyFile == [bytes |-> "none"]

\* the content of a file that holds the beginning of json.dump's output only:
\* the head of document j and its first k results
PartialFile(j, k) ==
    [bytes |-> "partial", runId |-> j.runId, results |-> SubSeq(j.results, 1, k)]

\* open(file_path, 'w'): the file is created or truncated to zero length
open_w(fs, path) ==
    [q \in DOMAIN fs \cup {path} |-> IF q = path THEN EmptyFile ELSE fs[q]]

InWrite == lastOp.name \in {"open_w", "json_dump"}

\* save_results up to open(file_path, 'w')
StoreOpen(t) ==
    /\ ~InWrite
    /\ files' = open_w(files, FilePath(t.projectName, t.runId))
    /\ mem' = t
    /\ lastOp' = OpAt("open_w", "none", FALSE, FilePath(t.projectName, t.runId))
    /\ UNCHANGED <<clock, projects, prompts, runner, view, dialog, ops>>

\* save_validation up to open(file_path, 'w'); a missing file raises before it
StoreOpenValidation(runId, t) ==
    /\ ~InWrite
    /\ mem' = t
    /\ IF save_validation_raises(files, ProjectName, runId)
       THEN /\ lastOp' = OpAt("save_validation", "NotFound", FALSE,
                              FilePath(ProjectName, runId))
            /\ UNCHANGED files
       ELSE /\ files' = open_w(files, FilePath(ProjectName, runId))
            /\ lastOp' = OpAt("open_w", "none", FALSE, FilePath(ProjectName, runId))
    /\ UNCHANGED <<clock, projects, prompts, runner, view, dialog, ops>>

\* json.dump has written the head of the document and k of its results
StoreDump(k) ==
    /\ lastOp.name = "open_w"
    /\ k \in 0..Len(mem.results)
    /\ files' = [files EXCEPT ![lastOp.path] = PartialFile(json_dump(mem), k)]
    /\ lastOp' = [lastOp EXCEPT !.name = "json_dump"]
    /\ UNCHANGED <<clock, projects, prompts, runner, mem, view, dialog, ops>>

\* json.dump has written the rest and the with block has closed the file
StoreClose ==
    /\ lastOp.name = "json_dump"
    /\ files' = WriteFile(files, lastOp.path, mem)
    /\ lastOp' = OpAt("save", "none", TRUE, lastOp.path)
    /\ UNCHANGED <<clock, projects, prompts, runner, mem, view, dialog, ops>>

\* a write raises (the disk is full, the medium fails): the with block closes
\* the file with what has been written and the exception reaches the caller
StoreWriteFails ==
    /\ InWrite
    /\ lastOp' = OpAt("save", "StorageError", FALSE, lastOp.path)
    /\ UNCHANGED <<clock, projects, prompts, files, runner, mem, view, dialog, ops>>

\* the process dies during the write; the next process finds the file as it is
StoreCrash ==
    /\ InWrite
    /\ mem' = NoRun
    /\ lastOp' = OpAt("crash", "none", FALSE, lastOp.path)
    /\ UNCHANGED <<clock, projects, prompts, files, runner, view, dialog, ops>>

NextCrash ==
    \/ \E t \in SampleRuns : StoreOpen(t)
    \/ \E second \in 0..MaxClock, t \in SampleRuns : StoreOpenValidation(RunIdOf(second), t)
    \/ \E k \in 0..1 : StoreDump(k)
    \/ StoreClose
    \/ StoreWriteFails
    \/ StoreCrash

SpecCrash == Init /\ [][NextCrash]_vars

\* a file content that is one whole TestRun document
IsDocument(f) == f \in {json_dump(t) : t \in SampleRuns}

\* C23: whenever no write is in progress (a save has returned, has raised, or
\* the process has died in it), every file of the store holds a complete
\* TestRun document that was the argument of a save: a write that fails or is
\* interrupted leaves the previous content of the file in place.
C23_FilesAreWholeDocuments ==
    ~InWrite => \A q \in DOMAIN files : IsDocument(files[q])


(***************************************************************************)
(* SpecAbort: judge batches in which validate_batch can end with an        *)
(* exception: cls() raises when the configuration file is missing or holds *)
(* no key (before any judge call), and an exception that leaves a task or  *)
(* the validator's context manager ends gather (during or after the calls).*)
(***************************************************************************)
\* variant: the run is saved before the exception is reported
BatchRaisesAfterSave ==
    /\ dialog.pc = "running"
    /\ dialog' = [dialog EXCEPT !.pc = "failed"]
    /\ files' = save_validation(files, ProjectName, mem.runId, mem)
    /\ lastOp' = Op("validate_batch", "Exception")
    /\ UNCHANGED <<clock, projects, prompts, runner, mem, view, ops>>

\* validate_batch raises: the await in _validate_batch raises too, so its
\* save_validation is not reached; _run_validation reports the error and
\* rejects the dialog, and the caller does not reload
BatchRaises ==
    /\ dialog.pc = "running"
    /\ dialog' = [dialog EXCEPT !.pc = "failed"]
    /\ lastOp' = Op("validate_batch", "Exception")
    /\ UNCHANGED <<clock, projects, prompts, files, runner, mem, view, ops>>

NextAbort ==
    \/ NextJudge
    \/ BatchRaises

SpecAbort == Init /\ [][NextAbort]_vars

\* C24: a batch that ends normally has recorded an outcome on every selected
\* result; a batch that ends with an exception leaves every selected result
\* whose judge call had not completed without the "openai" channel, performs no
\* save_validation, and no step of it, the failing one included, changes any
\* stored file.
C24_FailedBatchWritesNothing ==
    [][/\ (dialog.pc = "running" /\ dialog'.pc = "done") =>
            \A k \in DOMAIN dialog.to_validate :
                HasOpenai(mem'.results[dialog.to_validate[k]])
       /\ (dialog.pc = "running" /\ dialog'.pc \in {"running", "failed"}) =>
            files' = files
       /\ (dialog.pc = "running" /\ dialog'.pc = "failed") =>
            /\ ~lastOp'.saved
            /\ lastOp'.error # "none"
            /\ \A k \in DOMAIN dialog.to_validate :
                   ~dialog.tasks[k].done =>
                       ~HasOpenai(mem'.results[dialog.to_validate[k]])
      ]_vars

\* validate_batch raised before any judge call of a two-result batch: neither
\* result has the channel and the file is the run as it was written
C24_Witness ==
    /\ dialog.pc = "failed"
    /\ Len(dialog.to_validate) = 2
    /\ dialog.completed = 0
    /\ \A i \in DOMAIN mem.results : ~HasOpenai(mem.results[i])
    /\ lastOp.name = "validate_batch" /\ lastOp.error = "Exception"
    /\ files[FilePath(ProjectName, mem.runId)] = json_dump(dialog.before)


\* C25: every Result of the TestRun that run_test builds, returns and persists
\* carries a validations mapping that is present and empty.
C25_NewResultsHaveEmptyValidations ==
    (runner.pc = "returned" /\ lastOp.name = "run_test") =>
        /\ \A i \in DOMAIN runner.returned.results :
               /\ runner.returned.results[i].hasValidations
               /\ ~runner.returned.results[i].manual.present
               /\ ~runner.returned.results[i].openai.present
        /\ \A i \in DOMAIN files[lastOp.path].results :
               /\ files[lastOp.path].results[i].hasValidations
               /\ ~files[lastOp.path].results[i].manual.present
               /\ ~files[lastOp.path].results[i].openai.present


\* the positions at which two sequences of the same length differ
Changed(a, b) == {i \in DOMAIN a : a[i] # b[i]}

\* C26: the concurrent tasks never write the same Result. In a batch no result
\* is selected twice and there is one task per selected result; each judge
\* reply completes exactly one task that was still pending and writes the
\* "openai" channel of that task's result, which this batch had not written
\* before, and of no other result. In run_test there is one request per
\* context, each reply completes one request that was still pending, and the
\* result appended for position k holds context k and the output of request k.
C26_TasksWriteDistinctResults ==
    [][/\ dialog.pc = "running" =>
            /\ Len(dialog.tasks) = Len(dialog.to_validate)
            /\ \A j, k \in DOMAIN dialog.to_validate :
                   dialog.to_validate[j] = dialog.to_validate[k] => j = k
       /\ (dialog.pc = "running" /\ dialog'.completed = dialog.completed + 1) =>
            \E k \in DOMAIN dialog.tasks :
                /\ Changed(dialog.tasks, dialog'.tasks) = {k}
                /\ ~dialog.tasks[k].done /\ dialog'.tasks[k].done
                /\ Changed(mem.results, mem'.results) = {dialog.to_validate[k]}
                /\ ~HasOpenai(mem.results[dialog.to_validate[k]])
                /\ HasOpenai(mem'.results[dialog.to_validate[k]])
                /\ dialog'.to_validate = dialog.to_validate
       /\ (dialog.pc = "running" /\ dialog'.pc = "done") =>
            /\ \A k \in DOMAIN dialog.tasks : dialog.tasks[k].done
            /\ dialog.completed = Len(dialog.to_validate)
       /\ runner.pc = "running" => Len(runner.tasks) = Len(runner.contexts)
       /\ (runner.pc = "running" /\ runner'.order # runner.order) =>
            \E i \in DOMAIN runner.tasks :
                /\ Changed(runner.tasks, runner'.tasks) = {i}
                /\ ~runner.tasks[i].done /\ runner'.tasks[i].done
                /\ runner'.results = runner.results
       /\ (runner.pc = "running" /\ runner'.results # runner.results) =>
            LET k == Len(runner.results) + 1 IN
            /\ Len(runner'.results) = k
            /\ SubSeq(runner'.results, 1, k - 1) = runner.results
            /\ runner'.results[k].context = runner.contexts[k]
            /\ runner'.results[k].modelResponse = runner.tasks[k].response
            /\ runner'.tasks = runner.tasks
      ]_vars

\* a run of two contexts with different outputs has been judged by a batch of
\* two tasks with different replies, each outcome on its own result
C26_Witness ==
    /\ dialog.pc = "done"
    /\ Len(dialog.to_validate) = 2
    /\ dialog.tasks[1].reply # dialog.tasks[2].reply
    /\ Len(mem.results) = 2
    /\ mem.results[1].modelResponse # mem.results[2].modelResponse
    /\ mem.results[1].openai # mem.results[2].openai
    /\ HasOpenai(mem.results[1]) /\ HasOpenai(mem.results[2])


\* C27: every manual action (Success, Fail, Skip) that returns without
\* reporting an error is durable: right after it the stored run's manual
\* channel for the result acted on equals the one in memory.
C27_ManualActionsAreDurable ==
    [][(/\ lastOp'.name \in {"validate_result", "skip_result"}
        /\ lastOp'.error = "none"
        /\ ops' = ops + 1) =>
           /\ FileExists(files', ProjectName, mem'.runId)
           /\ HasManual(mem'.results[Cur])
           /\ load_results(files', ProjectName, mem'.runId).results[Cur].manual
                  = mem'.results[Cur].manual
      ]_vars


\* the operations on a run that is being viewed or judged
ChannelOps ==
    {"validate_result", "skip_result", "update_openai_validation",
     "run_openai_validation", "run_openai_batch_validation",
     "judge_reply", "validate_batch"}

\* C28: once a judge call has populated the "openai" channel of a result, its
\* status, reason, model and response are changed by no later operation on the
\* run (manual validate, skip, further batches, the strip options, save),
\* neither in memory nor in the stored file.
C28_OpenaiChannelIsFinal ==
    [][(lastOp'.name \in ChannelOps /\ mem'.runId = mem.runId
          /\ Len(mem'.results) = Len(mem.results)) =>
           /\ \A i \in DOMAIN mem.results :
                  HasOpenai(mem.results[i]) =>
                      mem'.results[i].openai = mem.results[i].openai
           /\ \A q \in DOMAIN files \cap DOMAIN files' :
                  \A i \in DOMAIN files[q].results :
                      (files[q].results[i].hasValidations
                         /\ files[q].results[i].openai.present) =>
                          files'[q].results[i].openai = files[q].results[i].openai
      ]_vars


\* a step that starts a batch
BatchStarts == dialog.pc # "running" /\ dialog'.pc = "running"

C30_OffsetBatchKeepsAbsoluteIndexes ==
    [][/\ (BatchStarts /\ dialog'.start_index > 0) =>
            \A k \in DOMAIN dialog'.to_validate :
                /\ dialog'.to_validate[k] > dialog'.start_index
                /\ dialog'.to_validate[k] \in DOMAIN mem'.results
       /\ (dialog.pc = "running" /\ dialog.start_index > 0
             /\ dialog'.completed = dialog.completed + 1) =>
            \E k \in DOMAIN dialog.tasks :
                /\ ~dialog.tasks[k].done /\ dialog'.tasks[k].done
                /\ Changed(mem.results, mem'.results) = {dialog.to_validate[k]}
                /\ mem'.results[dialog.to_validate[k]] =
                       RecordOpenai(dialog.before.results[dialog.to_validate[k]],
                                    validate_response(dialog'.tasks[k].reply))
       /\ (dialog.pc = "running" /\ dialog.start_index > 0 /\ dialog'.pc = "done") =>
            /\ lastOp'.saved
            /\ files'[lastOp'.path] = json_dump(mem)
            /\ Len(files'[lastOp'.path].results) = Len(dialog.before.results)
            /\ \A i \in 1..dialog.start_index :
                   /\ mem.results[i] = dialog.before.results[i]
                   /\ load_results(files', ProjectName, mem.runId).results[i]
                          = dialog.before.results[i]
            /\ NewlyJudged(dialog.before, mem) \subseteq
                   (dialog.start_index + 1)..Len(mem.results)
      ]_vars

\* "Validate Current" on the second of two results, neither judged before:
\* the second result alone got the outcome and the stored run has both
C30_Witness ==
    /\ dialog.pc = "done"
    /\ dialog.start_index = 1
    /\ Len(mem.results) = 2
    /\ ~HasOpenai(mem.results[1]) /\ HasOpenai(mem.results[2])
    /\ lastOp.name = "validate_batch" /\ lastOp.saved
    /\ Len(files[lastOp.path].results) = 2
    /\ load_results(files, ProjectName, mem.runId) = mem

====
